---------------------------- MODULE Spec2Model ----------------------------
(***************************************************************************)
(* Session state machine of the QIOE front-end: the App component of       *)
(* src/unnamed/part_003 (state, handlers, effects), the controls of        *)
(* src/components/ControlPanel.tsx that guard those handlers, the service  *)
(* call runOptimization and the render of Metrics that consumes a result.  *)
(***************************************************************************)
EXTENDS Integers, Sequences, FiniteSets, TLC

(* ------------------------------ bounds -------------------------------- *)
\* Longest iteration array the external service returns in the model.
MaxFrames == 2
\* Upper end of the node-count slider in the model (the slider starts at 5).
MaxNodeCount == 5
\* Number of distinct random layouts Math.random can produce in the model.
MaxSeeds == 1
\* Number of times the user presses "Initialize Engine" in one behaviour.
MaxOptimize == 2
\* Largest node id the user picks in the start-node select in the model.
MaxStartChoice == 1
\* Number of edits of the optimization parameters in one behaviour.
MaxParamEdits == 1
\* Tick chains of src/App.tsx alive side by side in the model (a chain is a
\* pending callback that leads to another call of tick).
MaxChains == 2
\* Longest iteration array the loop of src/App.tsx plays in the model.
MaxLoopFrames == 4
\* Longest route of a frame in the model.
MaxRouteLen == 3
\* Significand bits of a number in the model.
MantissaBits == 7

(* ------------------------- program constants -------------------------- *)
INITIAL_NODES_COUNT == 15
MinNodeCount == 5

\* JavaScript null / undefined, and a present value.
Null == <<>>
Some(x) == <<x>>
Val(o) == o[1]

ScenarioTypes == {"random", "india", "logistics", "circuit", "delivery"}
AlgorithmTypes == {"quantum_annealing", "simulated_annealing", "greedy", "random"}

Node(i, px, py) == [id |-> i, x |-> px, y |-> py]

IndiaNodes ==
  << Node(0,30,5),   Node(1,32,25),  Node(2,25,30),  Node(3,45,30),
     Node(4,55,32),  Node(5,85,30),  Node(6,70,45),  Node(7,65,55),
     Node(8,10,40),  Node(9,12,60),  Node(10,18,65), Node(11,40,50),
     Node(12,40,70), Node(13,35,85), Node(14,45,85), Node(15,32,95) >>

LogisticsNodes ==
  << Node(0,10,15),  Node(1,10,75),  Node(2,15,25),  Node(3,25,65),
     Node(4,35,25),  Node(5,45,60),  Node(6,50,40),  Node(7,55,20),
     Node(8,60,70),  Node(9,75,50),  Node(10,80,30), Node(11,85,15),
     Node(12,90,20), Node(13,85,85) >>

CircuitNodes ==
  << Node(0,40,40),  Node(1,42,40),  Node(2,40,42),  Node(3,42,42),
     Node(4,60,40),  Node(5,62,40),  Node(6,60,42),  Node(7,62,42),
     Node(8,10,10),  Node(9,10,90),  Node(10,90,10), Node(11,90,90),
     Node(12,20,50), Node(13,30,50), Node(14,70,50), Node(15,80,50) >>

\* The delivery grid is jittered once, when the module is loaded; the model
\* keeps one sample of that jitter (whole units inside (-2.5, 2.5)).
DeliveryNodes ==
  [k \in 1..20 |->
     Node(k - 1,
          ((k - 1) % 5) * 20 + 10 + (((k - 1) * 3) % 5) - 2,
          ((k - 1) \div 5) * 20 + 10 + (((k - 1) * 2) % 5) - 2)]

\* SCENARIOS[s].fixedNodes and SCENARIOS[s].nodes
FixedNodes(s) == s # "random"
ScenarioFixedNodes(s) ==
  CASE s = "india"     -> IndiaNodes
    [] s = "logistics" -> LogisticsNodes
    [] s = "circuit"   -> CircuitNodes
    [] s = "delivery"  -> DeliveryNodes

\* Variant of generateNodes: the ids start at 1.
generateNodesFromOne(count, seed) ==
  [k \in 1..count |->
     Node(k, 5 + ((seed * k * 37) % 90), 5 + ((seed * k * 53) % 90))]

\* generateNodes(count): ids 0..count-1, coordinates in 5..94; seed stands
\* for the sequence of Math.random draws.
generateNodes(count, seed) ==
  [k \in 1..count |->
     Node(k - 1, 5 + ((seed * k * 37) % 90), 5 + ((seed * k * 53) % 90))]

Seeds == 1..MaxSeeds

\* Node set computed by the scenario-switch effect.
ScenarioNodes(s, count, seed) ==
  IF FixedNodes(s) THEN ScenarioFixedNodes(s) ELSE generateNodes(count, seed)

\* executionTime: 0 until a call succeeds, then endTime - startTime.
NoTime == "0"
Elapsed == "endTime - startTime"

InitialParams ==
  [steps |-> 5000, init_temp |-> 50, tunneling_rate |-> 25,
   algorithm |-> "quantum_annealing"]


(* ------------------------- the external service ----------------------- *)
MissingKeyMessage == "API Key is missing. Please set REACT_APP_GEMINI_API_KEY."
NoResponseMessage == "No response from optimization engine."
SyntaxErrorMessage == "Unexpected token in JSON"
FallbackMessage == "An unexpected error occurred"
\* Messages of the errors the SDK call rejects with ("" : an Error without
\* a message).
ServiceErrorMessages == {"", "503 Service Unavailable"}

\* response.text as the service may deliver it: absent or empty, not JSON,
\* the JSON literal null, or a JSON object with an iterations array of
\* 0..MaxFrames frames.
Texts ==
  {[kind |-> k, frames |-> 0] : k \in {"empty", "garbage", "null"}}
    \cup {[kind |-> "object", frames |-> n] : n \in 0..MaxFrames}

\* How the promise of ai.models.generateContent settles.
ServiceOutcomes ==
  {[kind |-> "reject", message |-> m, text |-> [kind |-> "empty", frames |-> 0]] :
      m \in ServiceErrorMessages}
    \cup {[kind |-> "fulfil", message |-> "", text |-> t] : t \in Texts}

\* One IterationData of a returned log (k = 1 is the first frame).
Frame(k, n) ==
  [step |-> k * 250, tunneling |-> (k % 2 = 0),
   current_energy |-> 100 - 10 * k + (IF k % 2 = 0 THEN 15 ELSE 0),
   best_energy |-> 100 - 10 * k]

\* JSON.parse(text) for the texts that parse; "garbage" throws.
JSONparse(text) ==
  IF text.kind = "null" THEN Null
  ELSE Some([iterations |-> [k \in 1..text.frames |-> Frame(k, text.frames)],
             final_result |-> [best_energy |-> 100 - 10 * text.frames,
                               tunneling_events |-> text.frames \div 2]])

Resolved(v) == [ok |-> TRUE, value |-> v, message |-> ""]
Thrown(m) == [ok |-> FALSE, value |-> Null, message |-> m]

\* Variant of runOptimization: the credential is not tested.
runOptimizationKeyUnchecked(keyPresent, outcome) ==
  IF outcome.kind = "reject" THEN Thrown(outcome.message)
  ELSE IF outcome.text.kind = "empty" THEN Thrown(NoResponseMessage)
  ELSE IF outcome.text.kind = "garbage" THEN Thrown(SyntaxErrorMessage)
  ELSE Resolved(JSONparse(outcome.text))

\* runOptimization: how its promise settles, given the credential and the
\* way the service call settles.
runOptimization(keyPresent, outcome) ==
  IF ~keyPresent THEN Thrown(MissingKeyMessage)
  ELSE IF outcome.kind = "reject" THEN Thrown(outcome.message)
  ELSE IF outcome.text.kind = "empty" THEN Thrown(NoResponseMessage)
  ELSE IF outcome.text.kind = "garbage" THEN Thrown(SyntaxErrorMessage)
  ELSE Resolved(JSONparse(outcome.text))

\* Variant of ErrorText: the message is recorded without the fallback.
ErrorTextNoFallback(message) == message

\* err.message || "An unexpected error occurred"
ErrorText(message) == IF message = "" THEN FallbackMessage ELSE message

(* ------------------------------- state -------------------------------- *)
VARIABLES
  nodeCount,      \* useState(INITIAL_NODES_COUNT)
  nodes, params, result, isOptimizing, playbackIndex, isPlaying, error,
  scenario, startNodeId, executionTime,    \* the fields of AppState
  apiKey,         \* process.env.API_KEY is set
  pending,        \* the optimize request in flight: what handleOptimize sent
  extCalls,       \* calls made to the external service
  optimizeClicks, \* times the user pressed "Initialize Engine"
  paramEdits,     \* times the user edited the parameters
  timers,         \* live setInterval timers of the animation effect
  crashed,        \* a render threw: the component tree is unmounted
  lastAct,        \* the operation that produced the current state
  reply,          \* how the service call settled, in the state its
                  \* settlement produced
  shownBefore,    \* the result on display before the operation that produced
                  \* this state; for a settled request, when it was issued
  run,            \* playback run: how it began, ticks since, no user action
  animationRef,   \* src/App.tsx: animationRef.current
  frameCallbacks, \* src/App.tsx: pending requestAnimationFrame callbacks whose
                  \* handle animationRef.current does not hold (any more)
  tickTimeouts    \* src/App.tsx: pending setTimeout(tick, 200)

vars == << nodeCount, nodes, params, result, isOptimizing, playbackIndex,
           isPlaying, error, scenario, startNodeId, executionTime, apiKey,
           pending, extCalls, optimizeClicks, paramEdits, timers, crashed,
           lastAct,
           reply, shownBefore, run, animationRef, frameCallbacks,
           tickTimeouts >>

\* The playback loop of src/App.tsx; src/unnamed/part_003 has none of it.
frameLoop == << animationRef, frameCallbacks, tickTimeouts >>
NoFrameCallbacks == [tick |-> 0, delay |-> 0]

\* result.iterations.length of a present result
Length(r) == Len(Val(r).iterations)

\* Variant of HasInterval: the effect does not test isPlaying.
HasIntervalIgnoresPlaying(playing, res) == res # Null

\* The interval of the animation effect exists for this pair of dependencies.
HasInterval(playing, res) == playing /\ res # Null

\* Variant of AnimationEffect: the effect returns no cleanup.
AnimationEffectNoCleanup(t, oldPlaying, oldResult, newPlaying, newResult) ==
  IF oldPlaying = newPlaying /\ oldResult = newResult THEN t
  ELSE t + (IF HasInterval(newPlaying, newResult) THEN 1 ELSE 0)

\* Animation effect (deps [isPlaying, result]): the cleanup clears the
\* interval the previous run created, the new run creates one if playing
\* with a result.
AnimationEffect(t, oldPlaying, oldResult, newPlaying, newResult) ==
  (IF HasInterval(oldPlaying, oldResult) THEN t - 1 ELSE t)
    + (IF HasInterval(newPlaying, newResult) THEN 1 ELSE 0)

\* Metrics reads data.iterations[currentStepIndex].current_route as soon as
\* data is present: it throws when the cursor is outside the array.
RenderThrows(res, cursor) ==
  res # Null /\ ~(cursor >= 0 /\ cursor < Length(res))

\* What follows every setState: re-render (which may throw) and the
\* animation effect.
Commit ==
  /\ crashed' = RenderThrows(result', playbackIndex')
  /\ timers' = IF crashed'
                 THEN AnimationEffect(timers, isPlaying, result, FALSE, Null)
                 ELSE AnimationEffect(timers, isPlaying, result,
                                      isPlaying', result')

NoRun == [origin |-> "none", ticks |-> 0]

Init ==
  /\ nodeCount = INITIAL_NODES_COUNT
  /\ \E seed \in Seeds : nodes = generateNodes(INITIAL_NODES_COUNT, seed)
  /\ params = InitialParams
  /\ result = Null
  /\ isOptimizing = FALSE
  /\ playbackIndex = -1
  /\ isPlaying = FALSE
  /\ error = Null
  /\ scenario = "random"
  /\ startNodeId = 0
  /\ executionTime = NoTime
  /\ apiKey \in BOOLEAN
  /\ pending = << >>
  /\ extCalls = 0
  /\ optimizeClicks = 0
  /\ paramEdits = 0
  /\ timers = 0
  /\ crashed = FALSE
  /\ lastAct = "mount"
  /\ reply = Null
  /\ shownBefore = Null
  /\ run = NoRun
  /\ animationRef = Null
  /\ frameCallbacks = NoFrameCallbacks
  /\ tickTimeouts = 0


(* ------------------------------ controls ------------------------------ *)
\* Variant of ControlEnabled: the controls are never disabled.
ControlEnabledAlways(optimizing) == TRUE

\* Every control of ControlPanel carries disabled={isOptimizing}.
ControlEnabled(optimizing) == ~optimizing


\* Variant of OptimizeEnabled: the button is never disabled.
OptimizeEnabledAlways(optimizing) == TRUE

\* The "Initialize Engine" button: disabled={isOptimizing}.
OptimizeEnabled(optimizing) == ~optimizing
\* The playback buttons are rendered only under {state.result && ...}.
PlaybackShown(res) == res # Null
\* The error overlay (with Dismiss) is rendered only under {state.error && ...}.
ErrorShown(err) == err # Null

\* Values the range inputs deliver in the model (tunneling_rate in 1/100).
SliderValues(name) ==
  CASE name = "steps"          -> {5000, 6000}
    [] name = "init_temp"      -> {50, 51}
    [] name = "tunneling_rate" -> {25, 30}

\* Variant of SliderEnabled: the range inputs ignore isOptimizing.
SliderEnabledInFlight(name, optimizing, algorithm) ==
  CASE name = "steps"          -> TRUE
    [] name = "init_temp"      -> algorithm \notin {"greedy", "random"}
    [] name = "tunneling_rate" -> algorithm = "quantum_annealing"

\* disabled= of each range input.
SliderEnabled(name, optimizing, algorithm) ==
  CASE name = "steps"          -> ~optimizing
    [] name = "init_temp"      -> ~(optimizing \/ algorithm \in {"greedy", "random"})
    [] name = "tunneling_rate" -> ~(optimizing \/ algorithm # "quantum_annealing")

RemoveAt(q, i) == [k \in 1..(Len(q) - 1) |-> IF k < i THEN q[k] ELSE q[k + 1]]
Min(a, b) == IF a < b THEN a ELSE b
MaxTicks == MaxFrames + 2

(* ---------------------- the setState updaters ------------------------ *)
\* Variant of RequestUpdate: the result on display is kept, with its cursor.
RequestUpdateKeepsResult(res, cursor, time) ==
  [isOptimizing |-> TRUE, error |-> Null, result |-> res,
   playbackIndex |-> cursor, executionTime |-> time]

\* First setState of handleOptimize: what it overwrites.
RequestUpdate(res, cursor, time) ==
  [isOptimizing |-> TRUE, error |-> Null, result |-> Null,
   playbackIndex |-> -1, executionTime |-> NoTime]

\* Variant of SuccessUpdate: no auto-play.
SuccessUpdateNoAutoPlay ==
  [isOptimizing |-> FALSE, playbackIndex |-> 0, isPlaying |-> FALSE]

\* setState of handleOptimize on success: what it overwrites besides result
\* and executionTime.
SuccessUpdate ==
  [isOptimizing |-> FALSE, playbackIndex |-> 0, isPlaying |-> TRUE]

\* Variant of TickUpdate: the callback never clears the play flag.
TickUpdateNeverStops(res, cursor, playing) ==
  IF res = Null
    THEN [playbackIndex |-> cursor, isPlaying |-> playing]
    ELSE IF cursor >= Length(res) - 1
           THEN [playbackIndex |-> cursor, isPlaying |-> playing]
           ELSE [playbackIndex |-> cursor + 1, isPlaying |-> playing]

\* Variant of TickUpdate: the callback does not test the end of the array.
TickUpdateUnbounded(res, cursor, playing) ==
  IF res = Null
    THEN [playbackIndex |-> cursor, isPlaying |-> playing]
    ELSE [playbackIndex |-> cursor + 1, isPlaying |-> playing]

\* Variant of TickUpdate: the tick that arrives at the last index also
\* clears the play flag.
TickUpdateStopsOnArrival(res, cursor, playing) ==
  IF res = Null
    THEN [playbackIndex |-> cursor, isPlaying |-> playing]
    ELSE IF cursor >= Length(res) - 1
           THEN [playbackIndex |-> cursor, isPlaying |-> FALSE]
           ELSE [playbackIndex |-> cursor + 1,
                 isPlaying |-> playing /\ cursor + 1 < Length(res) - 1]

\* Updater of the interval callback.
TickUpdate(res, cursor, playing) ==
  IF res = Null
    THEN [playbackIndex |-> cursor, isPlaying |-> playing]
    ELSE IF cursor >= Length(res) - 1
           THEN [playbackIndex |-> cursor, isPlaying |-> FALSE]
           ELSE [playbackIndex |-> cursor + 1, isPlaying |-> playing]

\* Variant of ToggleUpdate: the plain toggle of src/App.tsx.
ToggleUpdatePlain(res, cursor, playing) ==
  [playbackIndex |-> cursor, isPlaying |-> ~playing]

\* Updater of the play/pause button.
ToggleUpdate(res, cursor, playing) ==
  LET isAtEnd == res # Null /\ cursor >= Length(res) - 1 IN
    IF isAtEnd
      THEN [playbackIndex |-> 0, isPlaying |-> TRUE]
      ELSE [playbackIndex |-> cursor, isPlaying |-> ~playing]

\* Variant of SkipUpdate: the play flag is left as it was.
SkipUpdateKeepsPlaying(res, cursor, playing) ==
  [playbackIndex |-> Length(res) - 1, isPlaying |-> playing]

\* Updater of the skip-to-end button.
SkipUpdate(res, cursor, playing) ==
  [playbackIndex |-> Length(res) - 1, isPlaying |-> FALSE]

(* ------------------------------ actions ------------------------------- *)
\* Variant of ResetTopology: the play flag is not cleared.
ResetTopologyKeepsPlaying(newNodes) ==
  /\ nodes' = newNodes
  /\ result' = Null
  /\ playbackIndex' = -1
  /\ isPlaying' = isPlaying
  /\ startNodeId' = 0
  /\ executionTime' = NoTime

\* Variant of ResetTopology: the selected start node is kept.
ResetTopologyKeepsStart(newNodes) ==
  /\ nodes' = newNodes
  /\ result' = Null
  /\ playbackIndex' = -1
  /\ isPlaying' = FALSE
  /\ startNodeId' = startNodeId
  /\ executionTime' = NoTime

\* The setState of the scenario-switch effect and of handleResetNodes.
ResetTopology(newNodes) ==
  /\ nodes' = newNodes
  /\ result' = Null
  /\ playbackIndex' = -1
  /\ isPlaying' = FALSE
  /\ startNodeId' = 0
  /\ executionTime' = NoTime

\* handleSetScenario, then the scenario-switch effect when state.scenario
\* changed.
SetScenario(s) ==
  /\ ~crashed
  /\ ControlEnabled(isOptimizing)
  /\ scenario' = s
  /\ IF s # scenario
       THEN \E seed \in Seeds : ResetTopology(ScenarioNodes(s, nodeCount, seed))
       ELSE UNCHANGED << nodes, result, playbackIndex, isPlaying, startNodeId,
                         executionTime >>
  /\ shownBefore' = result
  /\ reply' = Null
  /\ lastAct' = "setScenario"
  /\ run' = NoRun
  /\ UNCHANGED << paramEdits, nodeCount, params, isOptimizing, error, apiKey, pending,
                  extCalls, optimizeClicks >>
  /\ UNCHANGED frameLoop
  /\ Commit

\* setNodeCount from the range input (rendered for 'random' only), then the
\* scenario-switch effect.
SetNodeCount(n) ==
  /\ ~crashed
  /\ ControlEnabled(isOptimizing)
  /\ scenario = "random"
  /\ n # nodeCount
  /\ nodeCount' = n
  /\ \E seed \in Seeds : ResetTopology(ScenarioNodes(scenario, n, seed))
  /\ shownBefore' = result
  /\ reply' = Null
  /\ lastAct' = "setNodeCount"
  /\ run' = NoRun
  /\ UNCHANGED << paramEdits, params, isOptimizing, error, scenario, apiKey, pending,
                  extCalls, optimizeClicks >>
  /\ UNCHANGED frameLoop
  /\ Commit

\* The options of the start-node select that are tried: the first ids and
\* the id of the last node of the list.
StartChoices(ns) ==
  {ns[k].id : k \in {j \in 1..Len(ns) : j <= MaxStartChoice + 1 \/ j = Len(ns)}}

\* handleSetStartNodeId from the select, whose options are the node ids.
SetStartNodeId(id) ==
  /\ ~crashed
  /\ ControlEnabled(isOptimizing)
  /\ \E k \in 1..Len(nodes) : nodes[k].id = id
  /\ id # startNodeId
  /\ startNodeId' = id
  /\ shownBefore' = result
  /\ reply' = Null
  /\ lastAct' = "setStartNodeId"
  /\ run' = NoRun
  /\ UNCHANGED << paramEdits, nodeCount, nodes, params, result, isOptimizing,
                  playbackIndex, isPlaying, error, scenario, executionTime,
                  apiKey, pending, extCalls, optimizeClicks >>
  /\ UNCHANGED frameLoop
  /\ Commit

\* Variant of ResetNodesApplies: the handler has no early return.
ResetNodesAppliesAlways(s) == TRUE

\* The early return of handleResetNodes: it goes on for 'random' only.
ResetNodesApplies(s) == s = "random"

\* handleResetNodes
ResetNodes ==
  /\ ~crashed
  /\ ControlEnabled(isOptimizing)
  /\ IF ~ResetNodesApplies(scenario)
       THEN UNCHANGED << nodes, result, playbackIndex, isPlaying, startNodeId,
                         executionTime >>
       ELSE \E seed \in Seeds : ResetTopology(generateNodes(nodeCount, seed))
  /\ shownBefore' = result
  /\ reply' = Null
  /\ lastAct' = "resetNodes"
  /\ run' = NoRun
  /\ UNCHANGED << paramEdits, nodeCount, params, isOptimizing, error, scenario, apiKey,
                  pending, extCalls, optimizeClicks >>
  /\ UNCHANGED frameLoop
  /\ Commit

\* handleParamsChange from the algorithm select.
SetAlgorithm(a) ==
  /\ ~crashed
  /\ ControlEnabled(isOptimizing)
  /\ a # params.algorithm
  /\ paramEdits < MaxParamEdits
  /\ paramEdits' = paramEdits + 1
  /\ params' = [params EXCEPT !.algorithm = a]
  /\ shownBefore' = result
  /\ reply' = Null
  /\ lastAct' = "paramsChange"
  /\ run' = NoRun
  /\ UNCHANGED << nodeCount, nodes, result, isOptimizing, playbackIndex,
                  isPlaying, error, scenario, startNodeId, executionTime,
                  apiKey, pending, extCalls, optimizeClicks >>
  /\ UNCHANGED frameLoop
  /\ Commit

\* handleParamsChange from a range input (handleChange of ControlPanel).
SetSlider(name, value) ==
  /\ ~crashed
  /\ SliderEnabled(name, isOptimizing, params.algorithm)
  /\ value # params[name]
  /\ paramEdits < MaxParamEdits
  /\ paramEdits' = paramEdits + 1
  /\ params' = [params EXCEPT ![name] = value]
  /\ shownBefore' = result
  /\ reply' = Null
  /\ lastAct' = "paramsChange"
  /\ run' = NoRun
  /\ UNCHANGED << nodeCount, nodes, result, isOptimizing, playbackIndex,
                  isPlaying, error, scenario, startNodeId, executionTime,
                  apiKey, pending, extCalls, optimizeClicks >>
  /\ UNCHANGED frameLoop
  /\ Commit

\* handleOptimize up to its await: the first setState, then runOptimization
\* up to the call of the external service (not made without a credential).
Optimize ==
  /\ ~crashed
  /\ OptimizeEnabled(isOptimizing)
  /\ optimizeClicks < MaxOptimize
  /\ optimizeClicks' = optimizeClicks + 1
  /\ LET u == RequestUpdate(result, playbackIndex, executionTime) IN
       /\ isOptimizing' = u.isOptimizing
       /\ error' = u.error
       /\ result' = u.result
       /\ playbackIndex' = u.playbackIndex
       /\ executionTime' = u.executionTime
  /\ shownBefore' = result
  /\ pending' = Append(pending,
                       [nodes |-> nodes, params |-> params,
                        startNodeId |-> startNodeId, context |-> scenario,
                        sent |-> apiKey])
  /\ extCalls' = IF apiKey THEN extCalls + 1 ELSE extCalls
  /\ reply' = Null
  /\ lastAct' = "optimize"
  /\ run' = NoRun
  /\ UNCHANGED << paramEdits, nodeCount, nodes, params, isPlaying, scenario, startNodeId,
                  apiKey >>
  /\ UNCHANGED frameLoop
  /\ Commit

\* handleOptimize after its await, runOptimization having resolved.
OptimizeSuccess(i, outcome) ==
  /\ ~crashed
  /\ i \in 1..Len(pending)
  /\ LET r == runOptimization(pending[i].sent, outcome) IN
       /\ r.ok
       /\ result' = r.value
  /\ isOptimizing' = SuccessUpdate.isOptimizing
  /\ playbackIndex' = SuccessUpdate.playbackIndex
  /\ isPlaying' = SuccessUpdate.isPlaying
  /\ executionTime' = Elapsed
  /\ pending' = RemoveAt(pending, i)
  /\ reply' = Some(outcome)
  /\ lastAct' = "optimizeSuccess"
  /\ run' = [origin |-> "load", ticks |-> 0]
  /\ UNCHANGED << paramEdits, shownBefore, nodeCount, nodes, params, error, scenario, startNodeId,
                  apiKey, extCalls, optimizeClicks >>
  /\ UNCHANGED frameLoop
  /\ Commit

\* handleOptimize after its await, runOptimization having thrown (catch).
OptimizeFailure(i, outcome) ==
  /\ ~crashed
  /\ i \in 1..Len(pending)
  /\ LET r == runOptimization(pending[i].sent, outcome) IN
       /\ ~r.ok
       /\ error' = Some(ErrorText(r.message))
  /\ isOptimizing' = FALSE
  /\ pending' = RemoveAt(pending, i)
  /\ reply' = IF pending[i].sent THEN Some(outcome) ELSE Null
  /\ lastAct' = "optimizeFailure"
  /\ run' = NoRun
  /\ UNCHANGED << paramEdits, shownBefore, nodeCount, nodes, params, result, playbackIndex, isPlaying,
                  scenario, startNodeId, executionTime, apiKey, extCalls,
                  optimizeClicks >>
  /\ UNCHANGED frameLoop
  /\ Commit

\* The callback of the setInterval of the animation effect.
Tick ==
  /\ ~crashed
  /\ timers > 0
  /\ LET u == TickUpdate(result, playbackIndex, isPlaying) IN
       /\ playbackIndex' = u.playbackIndex
       /\ isPlaying' = u.isPlaying
  /\ shownBefore' = result
  /\ reply' = Null
  /\ lastAct' = "tick"
  /\ run' = IF run.origin = "none" THEN run
            ELSE [run EXCEPT !.ticks = Min(@ + 1, MaxTicks)]
  /\ UNCHANGED << paramEdits, nodeCount, nodes, params, result, isOptimizing, error,
                  scenario, startNodeId, executionTime, apiKey, pending,
                  extCalls, optimizeClicks >>
  /\ UNCHANGED frameLoop
  /\ Commit

\* onClick of the play/pause button.
TogglePlay ==
  /\ ~crashed
  /\ PlaybackShown(result)
  /\ LET u == ToggleUpdate(result, playbackIndex, isPlaying) IN
       /\ playbackIndex' = u.playbackIndex
       /\ isPlaying' = u.isPlaying
  /\ run' = IF ~isPlaying /\ playbackIndex = Length(result) - 1
              THEN [origin |-> "restart", ticks |-> 0]
              ELSE NoRun
  /\ shownBefore' = result
  /\ reply' = Null
  /\ lastAct' = "toggle"
  /\ UNCHANGED << paramEdits, nodeCount, nodes, params, result, isOptimizing, error,
                  scenario, startNodeId, executionTime, apiKey, pending,
                  extCalls, optimizeClicks >>
  /\ UNCHANGED frameLoop
  /\ Commit

\* onClick of the skip-to-end button.
SkipToEnd ==
  /\ ~crashed
  /\ PlaybackShown(result)
  /\ LET u == SkipUpdate(result, playbackIndex, isPlaying) IN
       /\ playbackIndex' = u.playbackIndex
       /\ isPlaying' = u.isPlaying
  /\ shownBefore' = result
  /\ reply' = Null
  /\ lastAct' = "skip"
  /\ run' = NoRun
  /\ UNCHANGED << paramEdits, nodeCount, nodes, params, result, isOptimizing, error,
                  scenario, startNodeId, executionTime, apiKey, pending,
                  extCalls, optimizeClicks >>
  /\ UNCHANGED frameLoop
  /\ Commit

\* onClick of Dismiss in the error overlay.
DismissError ==
  /\ ~crashed
  /\ ErrorShown(error)
  /\ error' = Null
  /\ shownBefore' = result
  /\ reply' = Null
  /\ lastAct' = "dismiss"
  /\ run' = NoRun
  /\ UNCHANGED << paramEdits, nodeCount, nodes, params, result, isOptimizing,
                  playbackIndex, isPlaying, scenario, startNodeId,
                  executionTime, apiKey, pending, extCalls, optimizeClicks >>
  /\ UNCHANGED frameLoop
  /\ Commit

Next ==
  \/ \E s \in ScenarioTypes : SetScenario(s)
  \/ \E n \in MinNodeCount..MaxNodeCount : SetNodeCount(n)
  \/ \E id \in StartChoices(nodes) : SetStartNodeId(id)
  \/ ResetNodes
  \/ \E a \in AlgorithmTypes : SetAlgorithm(a)
  \/ \E name \in {"steps", "init_temp", "tunneling_rate"} :
       \E value \in SliderValues(name) : SetSlider(name, value)
  \/ Optimize
  \/ \E i \in 1..MaxOptimize : \E outcome \in ServiceOutcomes :
       OptimizeSuccess(i, outcome)
  \/ \E i \in 1..MaxOptimize : \E outcome \in ServiceOutcomes :
       OptimizeFailure(i, outcome)
  \/ Tick
  \/ TogglePlay
  \/ SkipToEnd
  \/ DismissError

Spec == Init /\ [][Next]_vars


(* ----------------- Metrics: what it derives from its props ------------ *)
\* Variant of isFinished: compares the cursor with the length.
isFinishedAtLength(data, currentStepIndex) ==
  data # Null /\ currentStepIndex = Length(data)

\* isFinished: currentStepIndex === data.iterations.length - 1 (false
\* without data).
isFinished(data, currentStepIndex) ==
  data # Null /\ currentStepIndex = Length(data) - 1

(* --------------------- numbers: binary floating point ----------------- *)
\* JavaScript numbers are binary floating point with round-to-nearest-even.
\* The model keeps MantissaBits significand bits (the program has 53) and
\* counts a number in units of 2^-(MantissaBits-1), so that every number
\* that is 0 or at least 1 is a whole count of units.
RECURSIVE Pow2(_)
Pow2(n) == IF n = 0 THEN 1 ELSE 2 * Pow2(n - 1)

\* The number 1.
One == Pow2(MantissaBits - 1)

\* Spacing of the representable numbers around x.
RECURSIVE UlpFrom(_, _)
UlpFrom(x, u) == IF x < 2 * u * One THEN u ELSE UlpFrom(x, 2 * u)
Ulp(x) == UlpFrom(x, 1)

\* The representable number nearest to the exact value x, ties to even.
RoundNearestEven(x) ==
  LET u == Ulp(x)
      q == x \div u
      r == x % u
  IN  IF 2 * r < u THEN q * u
      ELSE IF 2 * r > u THEN (q + 1) * u
      ELSE IF q % 2 = 0 THEN q * u ELSE (q + 1) * u

\* a + b of two numbers.
FAdd(a, b) == RoundNearestEven(a + b)

\* Math.pow(d, 2) of a whole number d.
MathPow2(d) == RoundNearestEven(d * d * One)

\* Largest r with r * r <= n, for lo * lo <= n < hi * hi.
RECURSIVE ISqrtIn(_, _, _)
ISqrtIn(n, lo, hi) ==
  IF hi - lo <= 1 THEN lo
  ELSE LET mid == (lo + hi) \div 2 IN
         IF mid * mid <= n THEN ISqrtIn(n, mid, hi) ELSE ISqrtIn(n, lo, mid)

\* Math.sqrt(v): the representable number nearest to the square root.
MathSqrt(v) ==
  LET n  == v * One
      r  == ISqrtIn(n, 0, 46340)
      u  == Ulp(r)
      lo == (r \div u) * u
      below == 4 * (n - lo * lo)
      half  == 4 * lo * u + u * u
  IN  IF below < half THEN lo
      ELSE IF below > half THEN lo + u
      ELSE IF (lo \div u) % 2 = 0 THEN lo ELSE lo + u

\* Math.abs
Abs(x) == IF x < 0 THEN -x ELSE x

(* ----------------- Metrics: the values it computes -------------------- *)
\* nodes.find(n => n.id === id): the first node with that id, or undefined.
Find(nodeSeq, id) ==
  LET hits == {k \in 1..Len(nodeSeq) : nodeSeq[k].id = id} IN
    IF hits = {} THEN Null
    ELSE Some(nodeSeq[CHOOSE k \in hits : \A h \in hits : k <= h])

\* Math.sqrt(Math.pow(n1.x - n2.x, 2) + Math.pow(n1.y - n2.y, 2))
Distance(n1, n2) ==
  MathSqrt(FAdd(MathPow2(n1.x - n2.x), MathPow2(n1.y - n2.y)))

RECURSIVE RouteReduceOpen(_, _, _)
RECURSIVE RouteReduce(_, _, _)

\* Variant of RouteReduce: the last id has no successor (no wrap-around).
RouteReduceOpen(routeIds, nodeSeq, k) ==
  IF k = 0 THEN 0
  ELSE LET total == RouteReduceOpen(routeIds, nodeSeq, k - 1)
           n1 == Find(nodeSeq, routeIds[k])
           n2 == IF k < Len(routeIds) THEN Find(nodeSeq, routeIds[k + 1])
                 ELSE Null
       IN  IF n1 # Null /\ n2 # Null
             THEN FAdd(total, Distance(Val(n1), Val(n2)))
             ELSE total

\* routeIds.reduce((total, id, index) => ..., 0) after the first k ids: the
\* pair (id, nextId) adds its distance when both nodes are found, else
\* the total passes through.
RouteReduce(routeIds, nodeSeq, k) ==
  IF k = 0 THEN 0
  ELSE LET total == RouteReduce(routeIds, nodeSeq, k - 1)
           n1 == Find(nodeSeq, routeIds[k])
           n2 == Find(nodeSeq, routeIds[(k % Len(routeIds)) + 1])
       IN  IF n1 # Null /\ n2 # Null
             THEN FAdd(total, Distance(Val(n1), Val(n2)))
             ELSE total

\* Variant of calculateRouteDistance: 0 as soon as one id is not found.
calculateRouteDistanceZeroOnMissing(routeIds, nodeSeq) ==
  IF Len(routeIds) < 2 \/ Len(nodeSeq) = 0 THEN 0
  ELSE IF \E k \in 1..Len(routeIds) : Find(nodeSeq, routeIds[k]) = Null THEN 0
  ELSE RouteReduce(routeIds, nodeSeq, Len(routeIds))

\* calculateRouteDistance(routeIds) over the nodes prop.
calculateRouteDistance(routeIds, nodeSeq) ==
  IF Len(routeIds) < 2 \/ Len(nodeSeq) = 0 THEN 0
  ELSE RouteReduce(routeIds, nodeSeq, Len(routeIds))

\* array.slice(0, end) for end >= 0
Slice(array, end) == SubSeq(array, 1, Min(end, Len(array)))

Tunnels(it) == it.tunneling

\* Variant of cumulativeTunneling: the slice stops before the cursor.
cumulativeTunnelingBeforeCursor(data, currentStepIndex) ==
  IF data = Null THEN 0
  ELSE Len(SelectSeq(Slice(Val(data).iterations, currentStepIndex), Tunnels))

\* cumulativeTunneling: data.iterations.slice(0, currentStepIndex + 1)
\*                        .filter(it => it.tunneling).length
cumulativeTunneling(data, currentStepIndex) ==
  IF data = Null THEN 0
  ELSE Len(SelectSeq(Slice(Val(data).iterations, currentStepIndex + 1),
                     Tunnels))

\* Energies are counted in units of 0.0005: the tolerance 0.001 is 2 units.
Tolerance == 2

\* data.iterations.find(it => Math.abs(it.best_energy - finalEnergy) < 0.001)
\* searched from frame k on: the first such frame, or undefined.
RECURSIVE FindBestIter(_, _, _)
FindBestIter(iterations, finalEnergy, k) ==
  IF k > Len(iterations) THEN Null
  ELSE IF Abs(iterations[k].best_energy - finalEnergy) < Tolerance
         THEN Some(iterations[k])
         ELSE FindBestIter(iterations, finalEnergy, k + 1)

\* Variant of convergenceStep: the fallback is the number of frames.
convergenceStepFrameCount(data) ==
  LET iterations == Val(data).iterations
      bestIter == FindBestIter(iterations, Val(data).final_result.best_energy, 1)
  IN  IF bestIter # Null THEN Val(bestIter).step ELSE Len(iterations)

\* convergenceStep: bestIter ? bestIter.step : the last frame's step.
convergenceStep(data) ==
  LET iterations == Val(data).iterations
      bestIter == FindBestIter(iterations, Val(data).final_result.best_energy, 1)
  IN  IF bestIter # Null THEN Val(bestIter).step
      ELSE iterations[Len(iterations)].step

(* ------------- responses the service may return to Metrics ------------ *)
\* One IterationData.
IterationData(s, t, e, route) ==
  [step |-> s, tunneling |-> t, current_energy |-> e, best_energy |-> e,
   current_route |-> route, best_route |-> route]

\* Nothing validates a response: steps in any order, any energies, routes
\* with any ids.
StepValues == {250, 500}
EnergyValues == {80, 81, 82}
\* Ids a route names in the model: the first, second and last node of a
\* layout of MinNodeCount nodes, and an id no node of it has.
RouteIds == {0, 1, MinNodeCount - 1, MinNodeCount}
Routes == UNION {[1..n -> RouteIds] : n \in 0..MaxRouteLen}
Rotate(route, j) ==
  [i \in 1..Len(route) |-> route[((i - 1 + j) % Len(route)) + 1]]

FinalResult(e, its) ==
  [best_energy |-> e,
   tunneling_events |-> Cardinality({k \in 1..Len(its) : its[k].tunneling})]

\* Logs of 1..MaxFrames frames with any steps, flags and energies (and
\* empty routes).
LogResponses ==
  {[iterations |-> its, final_result |-> FinalResult(e, its)] :
     its \in UNION {[1..n -> {IterationData(s, t, b, << >>) :
                               s \in StepValues, t \in BOOLEAN,
                               b \in EnergyValues}] : n \in 1..MaxFrames},
     e \in EnergyValues}

\* Logs of two frames that show any route and then its rotation by one.
RouteResponses ==
  {[iterations |-> << IterationData(250, FALSE, 80, r),
                      IterationData(500, TRUE, 80, Rotate(r, 1)) >>,
    final_result |-> [best_energy |-> 80, tunneling_events |-> 1]] :
     r \in Routes}

MetricsResponses == LogResponses \cup RouteResponses

\* The session right after handleOptimize installed a response, on a random
\* layout of MinNodeCount nodes.
MetricsInit ==
  /\ nodeCount = MinNodeCount
  /\ \E seed \in Seeds : nodes = generateNodes(MinNodeCount, seed)
  /\ params = InitialParams
  /\ \E r \in MetricsResponses :
       /\ result = Some(r)
       /\ reply = Some([kind |-> "fulfil", message |-> "",
                        text |-> [kind |-> "object",
                                  frames |-> Len(r.iterations)]])
  /\ isOptimizing = SuccessUpdate.isOptimizing
  /\ playbackIndex = SuccessUpdate.playbackIndex
  /\ isPlaying = SuccessUpdate.isPlaying
  /\ error = Null
  /\ scenario = "random"
  /\ startNodeId = 0
  /\ executionTime = Elapsed
  /\ apiKey = TRUE
  /\ pending = << >>
  /\ extCalls = 1
  /\ optimizeClicks = 1
  /\ paramEdits = 0
  /\ timers = 1
  /\ crashed = FALSE
  /\ lastAct = "optimizeSuccess"
  /\ shownBefore = Null
  /\ run = [origin |-> "load", ticks |-> 0]
  /\ animationRef = Null
  /\ frameCallbacks = NoFrameCallbacks
  /\ tickTimeouts = 0

\* Playback of the installed response.
MetricsNext ==
  \/ Tick
  \/ TogglePlay
  \/ SkipToEnd

MetricsSpec == MetricsInit /\ [][MetricsNext]_vars

\* An installed response left to the timer alone: no user action. The
\* browser runs the callback of a live setInterval again and again, so the
\* tick is taken whenever it stays enabled.
TimerSpec == MetricsInit /\ [][Tick]_vars /\ WF_vars(Tick)


(* ------------- src/App.tsx: the requestAnimationFrame loop ------------ *)
PendingHandles == {Some("tick"), Some("delay")}
CancelledHandle == Some("done")

\* Pending callbacks that lead to another call of tick.
Chains ==
  (IF animationRef \in PendingHandles THEN 1 ELSE 0)
    + frameCallbacks.tick + frameCallbacks.delay + tickTimeouts

\* if (animationRef.current) cancelAnimationFrame(animationRef.current):
\* a pending frame callback is removed; a handle that has fired is not.
cancelAnimationFrame(ref) ==
  IF ref \in PendingHandles THEN CancelledHandle ELSE ref

\* The animation effect of src/App.tsx (deps [isPlaying, tick]): on a change
\* of isPlaying the cleanup cancels the handle held, then the effect
\* requests a frame for tick when playing and cancels again when not.
FrameEffect(ref, wasPlaying, nowPlaying) ==
  IF wasPlaying = nowPlaying THEN ref
  ELSE IF nowPlaying THEN Some("tick")
  ELSE cancelAnimationFrame(cancelAnimationFrame(ref))

\* The updater of tick.
FrameTickUpdate(res, cursor, playing) ==
  IF ~playing \/ res = Null \/ cursor >= Length(res) - 1
    THEN [playbackIndex |-> cursor, isPlaying |-> FALSE]
    ELSE [playbackIndex |-> cursor + 1, isPlaying |-> playing]

\* animationRef.current = requestAnimationFrame(...): a pending callback
\* whose handle was held is pending still, its handle forgotten.
Forgotten(ref, callbacks) ==
  IF ref = Some("tick") THEN [callbacks EXCEPT !.tick = @ + 1]
  ELSE IF ref = Some("delay") THEN [callbacks EXCEPT !.delay = @ + 1]
  ELSE callbacks

\* tick(), called with ref and callbacks as the loop stands: the setState,
\* the request of the next frame (whose callback sets the 200 ms timeout),
\* then the re-render and the animation effect.
tick(ref, callbacks) ==
  /\ LET u == FrameTickUpdate(result, playbackIndex, isPlaying) IN
       /\ playbackIndex' = u.playbackIndex
       /\ isPlaying' = u.isPlaying
  /\ frameCallbacks' = Forgotten(ref, callbacks)
  /\ animationRef' = FrameEffect(Some("delay"), isPlaying, isPlaying')

FrameLoopFrame ==
  UNCHANGED << nodeCount, nodes, params, result, isOptimizing, error, scenario,
               startNodeId, executionTime, apiKey, pending, extCalls,
               optimizeClicks, paramEdits, timers, crashed, reply,
               shownBefore, run >>

\* A frame runs the callback requestAnimationFrame(tick) registered.
FrameTick ==
  /\ \/ /\ animationRef = Some("tick")
        /\ tick(CancelledHandle, frameCallbacks)
     \/ /\ frameCallbacks.tick > 0
        /\ tick(animationRef, [frameCallbacks EXCEPT !.tick = @ - 1])
  /\ lastAct' = "frameTick"
  /\ UNCHANGED tickTimeouts
  /\ FrameLoopFrame

\* A frame runs the callback tick registered: setTimeout(tick, 200).
FrameDelay ==
  /\ \/ /\ animationRef = Some("delay")
        /\ animationRef' = CancelledHandle
        /\ UNCHANGED frameCallbacks
     \/ /\ frameCallbacks.delay > 0
        /\ frameCallbacks' = [frameCallbacks EXCEPT !.delay = @ - 1]
        /\ UNCHANGED animationRef
  /\ tickTimeouts' = tickTimeouts + 1
  /\ lastAct' = "frameDelay"
  /\ UNCHANGED << playbackIndex, isPlaying >>
  /\ FrameLoopFrame

\* The 200 ms timeout expires: tick.
TimeoutTick ==
  /\ tickTimeouts > 0
  /\ tickTimeouts' = tickTimeouts - 1
  /\ tick(animationRef, frameCallbacks)
  /\ lastAct' = "timeoutTick"
  /\ FrameLoopFrame

\* onClick of the play/pause button of src/App.tsx.
FrameTogglePlay ==
  /\ PlaybackShown(result)
  /\ isPlaying \/ Chains < MaxChains
  /\ isPlaying' = ~isPlaying
  /\ animationRef' = FrameEffect(animationRef, isPlaying, isPlaying')
  /\ lastAct' = "toggle"
  /\ UNCHANGED << playbackIndex, frameCallbacks, tickTimeouts >>
  /\ FrameLoopFrame

\* onClick of the skip-to-end button of src/App.tsx.
FrameSkipToEnd ==
  /\ PlaybackShown(result)
  /\ LET u == SkipUpdate(result, playbackIndex, isPlaying) IN
       /\ playbackIndex' = u.playbackIndex
       /\ isPlaying' = u.isPlaying
  /\ animationRef' = FrameEffect(animationRef, isPlaying, isPlaying')
  /\ lastAct' = "skip"
  /\ UNCHANGED << frameCallbacks, tickTimeouts >>
  /\ FrameLoopFrame

\* src/App.tsx right after handleOptimize installed a response of at least
\* one frame: the play flag went from false to true, so the effect has
\* requested a frame for tick.
FrameLoopInit ==
  /\ nodeCount = INITIAL_NODES_COUNT
  /\ \E seed \in Seeds : nodes = generateNodes(INITIAL_NODES_COUNT, seed)
  /\ params = InitialParams
  /\ \E n \in 1..MaxLoopFrames :
       /\ result = JSONparse([kind |-> "object", frames |-> n])
       /\ reply = Some([kind |-> "fulfil", message |-> "",
                        text |-> [kind |-> "object", frames |-> n]])
  /\ isOptimizing = FALSE
  /\ playbackIndex = 0
  /\ isPlaying = TRUE
  /\ error = Null
  /\ scenario = "random"
  /\ startNodeId = 0
  /\ executionTime = NoTime
  /\ apiKey = TRUE
  /\ pending = << >>
  /\ extCalls = 1
  /\ optimizeClicks = 1
  /\ paramEdits = 0
  /\ timers = 0
  /\ crashed = FALSE
  /\ lastAct = "optimizeSuccess"
  /\ shownBefore = Null
  /\ run = NoRun
  /\ animationRef = FrameEffect(Null, FALSE, TRUE)
  /\ frameCallbacks = NoFrameCallbacks
  /\ tickTimeouts = 0

FrameLoopNext ==
  \/ FrameTick
  \/ FrameDelay
  \/ TimeoutTick
  \/ FrameTogglePlay
  \/ FrameSkipToEnd

FrameLoopSpec == FrameLoopInit /\ [][FrameLoopNext]_vars

(* ============================== claims ================================ *)
\* The last index of the result on display.
LastIndex == Length(result) - 1

\* C1: when an optimize request resolves with a response of at least one
\* frame, a single transition out of the in-flight state installs the
\* returned response as the result, clears the in-flight flag, puts the
\* cursor at 0 and sets the play flag.
C1_SuccessInstallsAndAutoPlays ==
  [][ (lastAct' = "optimizeSuccess" /\ result' # Null /\ Length(result') >= 1)
        => /\ isOptimizing
           /\ reply' # Null
           /\ result' = JSONparse(Val(reply').text)
           /\ ~isOptimizing'
           /\ playbackIndex' = 0
           /\ isPlaying' ]_vars

C1_Witness ==
  /\ lastAct = "optimizeSuccess"
  /\ result # Null
  /\ Length(result) = MaxFrames
  /\ playbackIndex = 0
  /\ isPlaying
  /\ ~isOptimizing

\* C2: after a failed optimize request the session has no result, cursor
\* -1, a non-empty error message and a cleared in-flight flag, so that
\* optimize is enabled again; the external service is called only by an
\* optimize action of the user, so calls never outnumber those actions.
C2_FailureRecordsErrorNoRetry ==
  /\ [](extCalls <= optimizeClicks)
  /\ [][ /\ (lastAct' = "optimizeFailure"
               => /\ result' = Null
                  /\ playbackIndex' = -1
                  /\ error' # Null
                  /\ Val(error') # ""
                  /\ ~isOptimizing'
                  /\ OptimizeEnabled(isOptimizing'))
         /\ (extCalls' # extCalls
               => lastAct' = "optimize" /\ extCalls' = extCalls + 1) ]_vars

C2_Witness ==
  /\ lastAct = "optimizeFailure"
  /\ reply # Null
  /\ Val(reply).kind = "reject"
  /\ Val(reply).message = ""
  /\ error = Some(FallbackMessage)
  /\ extCalls = 1
  /\ optimizeClicks = 1

\* C3: every change of the selected scenario or of the node count ends in
\* Idle (no result, cursor -1, play flag false, no live timer) with start
\* node 0 and the node set of the new scenario.
C3_TopologyChangeEndsIdle ==
  [][ (scenario' # scenario \/ nodeCount' # nodeCount)
        => /\ result' = Null
           /\ playbackIndex' = -1
           /\ ~isPlaying'
           /\ startNodeId' = 0
           /\ timers' = 0
           /\ \E seed \in Seeds :
                nodes' = ScenarioNodes(scenario', nodeCount', seed) ]_vars

\* C3 witness: a scenario switch taken with a result on display.
C3_Witness ==
  /\ lastAct = "setScenario"
  /\ scenario = "delivery"
  /\ nodes = DeliveryNodes
  /\ result = Null
  /\ ~isPlaying
  /\ shownBefore # Null
  /\ Length(shownBefore) = MaxFrames

\* C4 as claimed: from a fresh load of L >= 1 frames and ticks only, after
\* exactly L-1 ticks the cursor is L-1 and the controller no longer plays.
C4_Original ==
  (run.origin = "load" /\ result # Null /\ Length(result) >= 1
     /\ run.ticks = LastIndex)
    => (playbackIndex = LastIndex /\ ~isPlaying)

\* C4 amended: from a fresh load of L >= 1 frames and ticks only, after k
\* <= L-1 ticks the cursor is k with the play flag still true (so after
\* exactly L-1 ticks the cursor is L-1); the L-th tick leaves the cursor at
\* L-1 and clears the play flag, and no further tick follows.
C4_FinishedAfterLengthTicks ==
  (run.origin = "load" /\ result # Null /\ Length(result) >= 1)
    => /\ run.ticks <= Length(result)
       /\ (run.ticks <= LastIndex
             => playbackIndex = run.ticks /\ isPlaying /\ timers = 1)
       /\ (run.ticks = Length(result)
             => playbackIndex = LastIndex /\ ~isPlaying /\ timers = 0)

C4_Witness ==
  /\ run.origin = "load"
  /\ result # Null
  /\ Length(result) = MaxFrames
  /\ run.ticks = Length(result)
  /\ playbackIndex = LastIndex
  /\ ~isPlaying

\* C5 as claimed: no tick fires once the cursor is at the last index.
C5_Original ==
  [][ lastAct' = "tick" => ~(result # Null /\ playbackIndex = LastIndex) ]_vars

\* C5 amended: a tick that fires with the cursor at the last index fires
\* while the play flag is still true, leaves the cursor in place, clears the
\* play flag and cancels the timer; so at most one tick follows the one that
\* reached the last index and none fires in Finished (not playing) until the
\* user restarts playback.
C5_OneClosingTick ==
  [][ (lastAct' = "tick" /\ result # Null /\ playbackIndex >= LastIndex)
        => /\ isPlaying
           /\ ~isPlaying'
           /\ playbackIndex' = playbackIndex
           /\ timers' = 0 ]_vars

C5_Witness ==
  /\ lastAct = "tick"
  /\ result # Null
  /\ Length(result) >= 2
  /\ playbackIndex = LastIndex
  /\ ~isPlaying
  /\ timers = 0

\* C6: the play/pause toggle pressed in Finished (cursor at the last index,
\* not playing) puts the cursor at 0, sets the play flag and starts the
\* timer; the ticks that follow then show every frame in turn up to the
\* last index.
C6_ToggleAtFinishedRestarts ==
  /\ [][ (lastAct' = "toggle" /\ result # Null /\ playbackIndex = LastIndex
            /\ ~isPlaying)
           => (playbackIndex' = 0 /\ isPlaying' /\ timers' = 1) ]_vars
  /\ []( (run.origin = "restart" /\ run.ticks <= LastIndex)
           => (playbackIndex = run.ticks /\ isPlaying /\ timers = 1) )

C6_Witness ==
  /\ run.origin = "restart"
  /\ result # Null
  /\ Length(result) = MaxFrames
  /\ run.ticks = LastIndex
  /\ playbackIndex = LastIndex

\* C7 as claimed: the toggle is a pure pause/resume: pressed while playing
\* (at any cursor) it clears the play flag and keeps the cursor; pressed
\* while paused before the last index it sets the play flag and keeps the
\* cursor.
C7_Original ==
  [][ (lastAct' = "toggle" /\ result # Null)
        => /\ (isPlaying => (~isPlaying' /\ playbackIndex' = playbackIndex))
           /\ ((~isPlaying /\ playbackIndex < LastIndex)
                 => (isPlaying' /\ playbackIndex' = playbackIndex)) ]_vars

\* C8: skip to end, with a result present, puts the cursor at the last
\* index, clears the play flag and cancels the timer, leaves result, node
\* set, parameters and start node alone, and no tick that follows moves
\* the cursor.
C8_SkipToEnd ==
  [][ /\ (lastAct' = "skip"
            => /\ result # Null
               /\ playbackIndex' = Length(result') - 1
               /\ ~isPlaying'
               /\ timers' = 0
               /\ result' = result
               /\ nodes' = nodes
               /\ params' = params
               /\ startNodeId' = startNodeId)
      /\ ((lastAct = "skip" /\ lastAct' = "tick")
            => playbackIndex' = playbackIndex) ]_vars

\* C8 witness: a skip taken with a result on display.
C8_Witness ==
  /\ lastAct = "skip"
  /\ result # Null
  /\ Length(result) = MaxFrames
  /\ playbackIndex = LastIndex
  /\ ~isPlaying
  /\ timers = 0

\* C9: at most one optimize call is outstanding: an optimize action is
\* taken only with the in-flight flag false and no request pending.
C9_OneOutstandingCall ==
  /\ [](Len(pending) <= 1 /\ (isOptimizing <=> pending # << >>))
  /\ [][ optimizeClicks' # optimizeClicks
           => (~isOptimizing /\ pending = << >> /\ Len(pending') = 1) ]_vars

C9_Witness ==
  /\ lastAct = "optimize"
  /\ optimizeClicks = 2
  /\ extCalls = 2
  /\ Len(pending) = 1
  /\ isOptimizing

\* C10 as claimed: if a result R was on display when the request was issued
\* and the request fails, the result after the failure is still R.
C10_Original ==
  (lastAct = "optimizeFailure" /\ shownBefore # Null)
    => result = shownBefore

\* C10 amended: the failure transition does not touch the result, but the
\* result R on display when the request was issued was already discarded by
\* the request itself, so after the failure the result is null, not R.
C10_FailureLeavesResultCleared ==
  [][ lastAct' = "optimizeFailure" => (result' = result /\ result' = Null) ]_vars

C10_Witness ==
  /\ lastAct = "optimizeFailure"
  /\ shownBefore # Null
  /\ Length(shownBefore) >= 1
  /\ result = Null
  /\ error # Null

\* C11 as claimed: a response whose iterations array is empty is surfaced
\* as an error: the settlement of such a response records an error message
\* and installs no result, and no state has a result present whose
\* iteration array has length 0.
C11_Original ==
  /\ (result # Null => Length(result) >= 1)
  /\ ((reply # Null /\ Val(reply).kind = "fulfil"
         /\ Val(reply).text.kind = "object" /\ Val(reply).text.frames = 0)
        => (error # Null /\ result = Null))

\* C12: without the API credential runOptimization fails before any call
\* to the external service: the count of external calls stays 0, no request
\* ever succeeds, and the failure records the missing-key error with no
\* result.
C12_MissingKeyFailsBeforeCall ==
  ~apiKey
    => /\ extCalls = 0
       /\ result = Null
       /\ lastAct # "optimizeSuccess"
       /\ \A i \in 1..Len(pending) : ~pending[i].sent
       /\ (lastAct = "optimizeFailure"
             => (error = Some(MissingKeyMessage) /\ reply = Null
                   /\ ~isOptimizing))

C12_Witness ==
  /\ ~apiKey
  /\ lastAct = "optimizeFailure"
  /\ optimizeClicks = MaxOptimize
  /\ extCalls = 0
  /\ error = Some(MissingKeyMessage)
  /\ result = Null

\* C13 as claimed: right after the success transition of a response of
\* length 1 the cursor is 0 = length-1, isFinished is true and the
\* controller is not Playing.
C13_Original ==
  (lastAct = "optimizeSuccess" /\ result # Null /\ Length(result) = 1)
    => (playbackIndex = 0 /\ isFinished(result, playbackIndex) /\ ~isPlaying)

\* C13 amended: right after the success transition of a response of length
\* 1 the cursor is 0 = length-1 and isFinished is true, but the play flag is
\* true with one live timer; the tick that follows leaves the cursor at 0,
\* clears the play flag and cancels the timer, and no tick ever changes the
\* cursor of a result of length 1.
C13_SingleFrameLoad ==
  /\ []( (lastAct = "optimizeSuccess" /\ result # Null /\ Length(result) = 1)
           => /\ playbackIndex = 0
              /\ playbackIndex = LastIndex
              /\ isFinished(result, playbackIndex)
              /\ isPlaying
              /\ timers = 1 )
  /\ [][ (lastAct' = "tick" /\ result # Null /\ Length(result) = 1)
           => /\ playbackIndex' = playbackIndex
              /\ playbackIndex' = 0
              /\ isFinished(result', playbackIndex')
              /\ ~isPlaying'
              /\ timers' = 0 ]_vars

C13_Witness ==
  /\ lastAct = "tick"
  /\ result # Null
  /\ Length(result) = 1
  /\ run = [origin |-> "load", ticks |-> 1]
  /\ playbackIndex = 0
  /\ isFinished(result, playbackIndex)
  /\ ~isPlaying

\* C14: at most one tick timer is live at any time, and one is live exactly
\* while the play flag is true and a result is present (and the tree is
\* mounted); the live timer is cancelled by every transition out of Playing
\* (pause, skip, finish), by every fresh optimize request and by every
\* topology change, whatever the interleaving of user actions and ticks.
C14_OneTimerOnlyWhilePlaying ==
  /\ []( /\ timers \in {0, 1}
         /\ (timers = 1 <=> (isPlaying /\ result # Null /\ ~crashed)) )
  /\ [][ ( \/ (isPlaying /\ ~isPlaying')
           \/ lastAct' \in {"skip", "optimize", "setNodeCount"}
           \/ scenario' # scenario
           \/ (lastAct' = "resetNodes" /\ scenario = "random") )
           => timers' = 0 ]_vars

\* C14 witness: a fresh optimize request issued while a run was playing: the
\* play flag is still true, the timer is gone.
C14_Witness ==
  /\ lastAct = "optimize"
  /\ shownBefore # Null
  /\ isPlaying
  /\ isOptimizing
  /\ timers = 0

\* C15: a successful response is installed as the result only if it answers
\* the most recent optimize request (the only one outstanding) and the node
\* set and scenario are those the request was issued with; while a request
\* is in flight no later request and no topology reset takes place, so no
\* response arrives late and none overwrites a newer state.
C15_ResponseAnswersCurrentRequest ==
  /\ []( isOptimizing
           => /\ Len(pending) = 1
              /\ pending[1].nodes = nodes
              /\ pending[1].context = scenario
              /\ pending[1].startNodeId = startNodeId
              /\ result = Null )
  /\ [][ lastAct' = "optimizeSuccess"
           => /\ isOptimizing
              /\ Len(pending) = 1
              /\ pending' = << >>
              /\ pending[1].nodes = nodes'
              /\ pending[1].context = scenario'
              /\ optimizeClicks' = optimizeClicks ]_vars

\* C15 witness: the response to a second request, issued after a topology
\* change, is installed on the node set of that request.
C15_Witness ==
  /\ lastAct = "optimizeSuccess"
  /\ optimizeClicks = 2
  /\ scenario = "india"
  /\ nodes = IndiaNodes
  /\ result # Null
  /\ Length(result) = MaxFrames
  /\ pending = << >>

\* C16: the optimization parameters (steps, init_temp, tunneling_rate,
\* algorithm) cannot change while an optimize request is in flight: in every
\* state with the in-flight flag true, params equal the params sent with
\* that request, and no step taken in flight changes them.
C16_ParamsFrozenInFlight ==
  /\ []( isOptimizing
           => /\ pending # << >>
              /\ \A i \in 1..Len(pending) : pending[i].params = params )
  /\ [][ isOptimizing => params' = params ]_vars

\* C16 witness: a request in flight that was sent with edited parameters.
C16_Witness ==
  /\ isOptimizing
  /\ lastAct = "optimize"
  /\ paramEdits = MaxParamEdits
  /\ params # InitialParams
  /\ pending[1].params = params

\* The frames of the result on display.
Iterations == Val(result).iterations

\* C17: for every iteration array and every cursor k with 0 <= k < length,
\* cumulativeTunneling(k) is the number of frames in positions 0..k
\* inclusive whose tunneling flag is true; it is non-decreasing in k, so it
\* never decreases as playback ticks forward.
C17_CumulativeTunnelingCounts ==
  /\ []( result # Null
           => /\ \A k \in 0..LastIndex :
                   cumulativeTunneling(result, k)
                     = Cardinality({i \in 0..k : Iterations[i + 1].tunneling})
              /\ \A k \in 0..LastIndex : \A j \in 0..k :
                   cumulativeTunneling(result, j)
                     <= cumulativeTunneling(result, k) )
  /\ [][ lastAct' = "tick"
           => cumulativeTunneling(result', playbackIndex')
                >= cumulativeTunneling(result, playbackIndex) ]_vars

\* C17 witness: ticks have reached the last frame of a log whose first
\* frame did not tunnel and whose last frame did.
C17_Witness ==
  /\ lastAct = "tick"
  /\ result # Null
  /\ Length(result) = MaxFrames
  /\ playbackIndex = LastIndex
  /\ ~Iterations[1].tunneling
  /\ Iterations[MaxFrames].tunneling
  /\ cumulativeTunneling(result, 0) = 0
  /\ cumulativeTunneling(result, playbackIndex) >= 1

\* The step values of the frames never decrease in frame order.
StepsNonDecreasing ==
  \A k \in 1..(Length(result) - 1) : Iterations[k].step <= Iterations[k + 1].step

\* The frames whose best_energy is within 0.001 of final_result.best_energy.
Converged ==
  {k \in 1..Length(result) :
     Abs(Iterations[k].best_energy - Val(result).final_result.best_energy)
       < Tolerance}

\* C18 as claimed: for every accepted response, whatever its step values
\* and energies, convergenceStep never exceeds the step of the last frame.
C18_Original ==
  (result # Null /\ Length(result) >= 1)
    => convergenceStep(result) <= Iterations[Length(result)].step

\* C18 amended: convergenceStep is the step of the first frame whose
\* best_energy is within 0.001 of final_result.best_energy, or the last
\* frame's step if no frame matches; it never exceeds the step of the last
\* frame when the step values are non-decreasing in frame order.
C18_ConvergenceStepBounded ==
  (result # Null /\ Length(result) >= 1)
    => /\ (Converged = {}
             => convergenceStep(result) = Iterations[Length(result)].step)
       /\ (Converged # {}
             => \E k \in Converged :
                  /\ \A h \in Converged : k <= h
                  /\ convergenceStep(result) = Iterations[k].step)
       /\ (StepsNonDecreasing
             => convergenceStep(result) <= Iterations[Length(result)].step)

\* C18 witness: steps in order, the second frame is the first to match.
C18_Witness ==
  /\ result # Null
  /\ Length(result) = 2
  /\ Iterations[1].step < Iterations[2].step
  /\ Converged = {2}
  /\ convergenceStep(result) = Iterations[2].step
  /\ lastAct = "tick"

\* currentRealDist: the distance Metrics shows for the frame at the cursor.
CurrentRoute == Iterations[playbackIndex + 1].current_route
currentRealDist == calculateRouteDistance(CurrentRoute, nodes)
Larger(a, b) == IF a < b THEN b ELSE a

SomeIdMissing ==
  \E k \in 1..Len(CurrentRoute) : Find(nodes, CurrentRoute[k]) = Null

\* What the pair (k-th id, its successor with wrap-around) adds.
PairTerm(route, k) ==
  LET n1 == Find(nodes, route[k])
      n2 == Find(nodes, route[IF k = Len(route) THEN 1 ELSE k + 1])
  IN  IF n1 = Null \/ n2 = Null THEN 0 ELSE Distance(Val(n1), Val(n2))

\* The terms of the pairs k..1 added up from the first pair on.
RECURSIVE SumOfPairs(_, _)
SumOfPairs(route, k) ==
  IF k = 0 THEN 0 ELSE FAdd(SumOfPairs(route, k - 1), PairTerm(route, k))

\* C20 as claimed: routeDistance returns 0 whenever the route has fewer than
\* 2 ids or any id of the route cannot be found in the node set; otherwise
\* it returns the sum of the distances of all consecutive pairs including
\* the wrap-around pair last->first.
C20_Original ==
  (result # Null /\ ~crashed)
    => IF Len(CurrentRoute) < 2 \/ SomeIdMissing
         THEN currentRealDist = 0
         ELSE currentRealDist = SumOfPairs(CurrentRoute, Len(CurrentRoute))

\* C20 amended: routeDistance returns 0 when the route has fewer than 2 ids;
\* otherwise it returns the sum, over all consecutive pairs including the
\* wrap-around pair last->first, of the distances of the pairs whose two ids
\* are both found in the node set: a pair with an id that cannot be found
\* adds nothing, it does not make the result 0 (the result is 0 only if no
\* pair has two found ids at a distance above 0).
C20_MissingIdSkipsItsPairs ==
  (result # Null /\ ~crashed)
    => /\ (Len(CurrentRoute) < 2 => currentRealDist = 0)
       /\ (Len(CurrentRoute) >= 2
             => currentRealDist = SumOfPairs(CurrentRoute, Len(CurrentRoute)))
       /\ (currentRealDist = 0
             <=> \A k \in 1..Len(CurrentRoute) :
                   Len(CurrentRoute) < 2 \/ PairTerm(CurrentRoute, k) = 0)

\* C20 witness: a route with an id that is not in the node set, whose other
\* two ids are found, has the length of the one pair that is found.
C20_Witness ==
  /\ result # Null
  /\ ~crashed
  /\ Len(CurrentRoute) = 3
  /\ SomeIdMissing
  /\ Find(nodes, CurrentRoute[1]) # Null
  /\ Find(nodes, CurrentRoute[2]) # Null
  /\ currentRealDist = PairTerm(CurrentRoute, 1)
  /\ currentRealDist > 0
  /\ lastAct = "skip"

\* The ids of a node list are 0..N-1 in list order.
IdsInListOrder(ns) == \A k \in 1..Len(ns) : ns[k].id = k - 1

\* N: the node count of the fixed scenario, or the chosen node count.
ExpectedNodeCount(s, count) ==
  IF FixedNodes(s) THEN Len(ScenarioFixedNodes(s)) ELSE count

\* C21: after every scenario switch, node-count change or reshuffle (and
\* in every state), the node set has the ids exactly 0..N-1 in list order,
\* without gaps or duplicates, N being the node count of the fixed scenario
\* or the chosen node count of the random scenario.
C21_NodeIdsAreZeroToN ==
  /\ []( /\ IdsInListOrder(nodes)
         /\ Len(nodes) = ExpectedNodeCount(scenario, nodeCount) )
  /\ [][ lastAct' \in {"setScenario", "setNodeCount", "resetNodes"}
           => /\ {nodes'[k].id : k \in 1..Len(nodes')}
                   = 0..(ExpectedNodeCount(scenario', nodeCount') - 1)
              /\ Cardinality({nodes'[k].id : k \in 1..Len(nodes')})
                   = Len(nodes') ]_vars

\* C21 witness: a reshuffle of a random layout of the smallest node count,
\* taken with a result on display.
C21_Witness ==
  /\ lastAct = "resetNodes"
  /\ scenario = "random"
  /\ nodeCount = MinNodeCount
  /\ Len(nodes) = MinNodeCount
  /\ IdsInListOrder(nodes)
  /\ shownBefore # Null

\* The cursor is inside the result on display, or -1 without a result.
CursorInRange ==
  IF result # Null
    THEN 0 <= playbackIndex /\ playbackIndex <= LastIndex
    ELSE playbackIndex = -1

\* The step installs a response with at least one frame.
InstallsFrames ==
  /\ lastAct' = "optimizeSuccess"
  /\ result' # Null
  /\ Length(result') >= 1

\* C22: for responses with at least one frame, the cursor k of a present
\* result satisfies 0 <= k <= length-1 and without a result the cursor is
\* -1: this holds once the session is mounted, the installation of a
\* response with at least one frame establishes it, and no tick, toggle,
\* skip, optimize request, failure, topology change or other step breaks
\* it.
C22_CursorInRange ==
  /\ [](lastAct = "mount" => CursorInRange)
  /\ [][ /\ (InstallsFrames => CursorInRange')
         /\ ((lastAct' # "optimizeSuccess" /\ CursorInRange)
               => CursorInRange') ]_vars

\* C22 witness: a tick has moved the cursor to the last frame of the result
\* of the last request.
C22_Witness ==
  /\ lastAct = "tick"
  /\ result # Null
  /\ Length(result) >= 2
  /\ playbackIndex = LastIndex
  /\ isPlaying
  /\ CursorInRange
  /\ optimizeClicks = MaxOptimize

\* C23: under weak fairness of the timer tick and with no user action
\* after a successful load of a result of length L >= 1, playback
\* eventually reaches cursor = L-1 with the play flag false and no live
\* timer, and stays in that state forever.
C23_PlaybackTerminates ==
  <>[](/\ result # Null
       /\ playbackIndex = LastIndex
       /\ ~isPlaying
       /\ timers = 0)

\* C23 witness: the timer alone has brought a load of MaxFrames frames to
\* its end.
C23_Witness ==
  /\ lastAct = "tick"
  /\ result # Null
  /\ Length(result) = MaxFrames
  /\ nodeCount = MinNodeCount
  /\ run.origin = "load"
  /\ run.ticks = MaxFrames
  /\ playbackIndex = MaxFrames - 1
  /\ ~isPlaying
  /\ timers = 0

\* C24 as claimed: in the requestAnimationFrame/setTimeout loop of
\* src/App.tsx no tick callback remains scheduled once the state has left
\* Playing (pause, skip to end, last frame reached), and at most one tick
\* chain is live after any sequence of play/pause toggles.
C24_Original ==
  /\ (~isPlaying => Chains = 0)
  /\ Chains <= 1

\* C25 as claimed: the play flag is true only if a result is present; no
\* sequence of operations, in particular no optimize request issued while a
\* previous result is playing, followed by its success or failure, reaches
\* a state with the play flag true and no result.
C25_Original == isPlaying => result # Null

\* C26 as claimed: whenever a result is displayed the selected start node
\* id is the start_node_id sent in the request that produced the result:
\* the response is installed under the start node of its request, and the
\* start node does not change while that result stays on display.
C26_Original ==
  [][ /\ (lastAct' = "optimizeSuccess"
            => pending[1].startNodeId = startNodeId')
      /\ ((result # Null /\ result' = result)
            => startNodeId' = startNodeId) ]_vars

\* C26 amended: the selected start node id equals the start_node_id of the
\* request while the request is in flight and when its response is
\* installed; afterwards a start-node selection changes the selected id and
\* leaves the result, the cursor and the play flag as they are, so the result
\* on display may have been computed for another start node until the next
\* optimize request or topology change clears it.
C26_StartNodeMatchesUntilReselected ==
  [][ /\ (lastAct' = "optimizeSuccess"
            => /\ Len(pending) = 1
               /\ pending[1].startNodeId = startNodeId
               /\ startNodeId' = startNodeId)
      /\ (isOptimizing => startNodeId' = startNodeId)
      /\ (lastAct' = "setStartNodeId"
            => /\ startNodeId' # startNodeId
               /\ result' = result
               /\ playbackIndex' = playbackIndex
               /\ isPlaying' = isPlaying)
      /\ ((result # Null /\ result' = result /\ startNodeId' # startNodeId)
            => lastAct' = "setStartNodeId") ]_vars

\* C26 witness: another start node selected under a result that is playing.
C26_Witness ==
  /\ lastAct = "setStartNodeId"
  /\ result # Null
  /\ shownBefore = result
  /\ isPlaying
  /\ startNodeId = MaxStartChoice


\* C27: a result and an error are never present at the same time: in every
\* reachable state result = null or error = null.
C27_ResultXorError == result = Null \/ error = Null

\* C27 witness: a request issued over a displayed result has failed; the
\* error is present and the earlier result is gone.
C27_Witness ==
  /\ lastAct = "optimizeFailure"
  /\ error # Null
  /\ shownBefore # Null
  /\ result = Null
  /\ optimizeClicks = MaxOptimize


\* C28: while an optimize request is in flight (isOptimizing true) the
\* session shows nothing stale: result = null, cursor = -1 and error = null,
\* and the node set, the scenario and the start node are exactly those
\* captured when the request was issued.
C28_NothingStaleInFlight ==
  isOptimizing =>
    /\ result = Null
    /\ playbackIndex = -1
    /\ error = Null
    /\ Len(pending) = 1
    /\ pending[1].nodes = nodes
    /\ pending[1].context = scenario
    /\ pending[1].startNodeId = startNodeId

\* C28 witness: a request in flight that replaced a displayed result, issued
\* on a fixed scenario for a start node other than the first.
C28_Witness ==
  /\ isOptimizing
  /\ lastAct = "optimize"
  /\ shownBefore # Null
  /\ scenario # "random"
  /\ startNodeId = MaxStartChoice
  /\ pending[1].startNodeId = MaxStartChoice


\* C29: once the initial topology has been generated, the selected start
\* node id always names a node of the current node set, after any sequence of
\* scenario switches, node-count changes, reshuffles and start-node
\* selections.
C29_StartNodeIsANode ==
  \E k \in 1..Len(nodes) : nodes[k].id = startNodeId

\* C29 witness: the last node of a fixed scenario's list, an id that the
\* smallest generated list does not have, is the selected start node.
C29_Witness ==
  /\ lastAct = "setStartNodeId"
  /\ scenario # "random"
  /\ startNodeId = nodes[Len(nodes)].id
  /\ startNodeId >= MinNodeCount


\* C30: handleResetNodes (reshuffle) is a no-op unless the selected scenario
\* is 'random': on a fixed scenario it leaves the node set, result, cursor,
\* play flag and start node unchanged; on 'random' it replaces the node set
\* with a generated one of nodeCount nodes and clears the result, the cursor
\* (-1), the play flag and the start node (0).
C30_ResetNodesOnlyOnRandom ==
  [][ lastAct' = "resetNodes" =>
        IF scenario # "random"
          THEN /\ nodes' = nodes
               /\ result' = result
               /\ playbackIndex' = playbackIndex
               /\ isPlaying' = isPlaying
               /\ startNodeId' = startNodeId
          ELSE /\ \E seed \in Seeds : nodes' = generateNodes(nodeCount, seed)
               /\ result' = Null
               /\ playbackIndex' = -1
               /\ ~isPlaying'
               /\ startNodeId' = 0 ]_vars

\* C30 witness: a reshuffle on a fixed scenario has left a playing result and
\* a start node other than the first as they were.
C30_Witness ==
  /\ lastAct = "resetNodes"
  /\ scenario # "random"
  /\ result # Null
  /\ shownBefore = result
  /\ isPlaying
  /\ startNodeId # 0

=============================================================================
